---- MODULE Spec2Model ----
(***************************************************************************)
(* The BLE connection-lifecycle machine of rn-ble-xstate-demo              *)
(* (app/bluetooth/state-machine/ble-machine.ts), the event listeners that  *)
(* feed it (useBleMachine) and the promise actors it invokes.              *)
(*                                                                         *)
(* The machine is an XState v5 machine.  One action of this module is one  *)
(* message processed by the actor: the exit of the states left (which      *)
(* stops their invoked actor), the transition's actions, the entry actions *)
(* of the states entered and the start of their invoked actor.             *)
(***************************************************************************)
EXTENDS Integers, Sequences, FiniteSets, TLC

\* ------------------------------------------------------------------ bounds

\* Signal strengths an advertisement may carry: 1..MaxRssi.
MaxRssi == 2

\* Promises whose invoking state was left before they settled, at most.
MaxStale == 1

\* ------------------------------------------------------------- value sets

\* null / undefined of the source.
None == "none"

\* Peripheral identifiers.
Devices == {"A", "B"}

\* deviceName of SELECT_DEVICE: undefined or empty (""), or a name.
Names == {"", "LBS"}

\* The signal strengths each device is advertised with: A's varies, B's
\* does not.
Rssis(d) == IF d = "A" THEN 1..MaxRssi ELSE {1}

\* A Peripheral as far as the machine reads it: its id (the rssi stands for
\* the rest of the advertisement).
Peripherals ==
  UNION {{[id |-> d, rssi |-> r] : r \in Rssis(d)} : d \in Devices}

\* The invoked promise actors, by their src.
Srcs ==
  {"checkBleAndPermissions", "loadStoredDeviceId", "scanForDevices",
   "stopScanning", "connectToDevice", "saveDeviceId",
   "discoverServicesAndSetup", "writeLedState", "readButtonState",
   "disconnectFromDevice"}

\* The leaf states of the machine.
States ==
  {"idle", "checkingBle", "loadingStoredDevice", "scanning",
   "stoppingPreviousScan", "connectingToDevice", "savingDeviceId",
   "discoveringServices", "ready", "togglingLed", "readingButton",
   "disconnecting"}

VARIABLES
  state,        \* the leaf state of the machine's state value
  context,      \* BleContext
  child,        \* the promise actor invoked by the current state, or NoChild
  stale,        \* promises not settled whose actor was stopped: src -> count
  store,        \* AsyncStorage[STORAGE_KEY]
  lastEvent,    \* history: the last message the actor processed
  attempt,      \* history: what the running connection attempt started from
  ledAtToggle,  \* history: ledState when the outstanding TOGGLE_LED was taken
  lastAdv       \* history: id -> last advertisement taken in this scan

vars ==
  <<state, context, child, stale, store, lastEvent, attempt, ledAtToggle,
    lastAdv>>

\* ---------------------------------------------------------- state value

\* The top-level state a leaf state belongs to.
Phase(s) ==
  CASE s = "idle" -> "idle"
    [] s \in {"checkingBle", "loadingStoredDevice"} -> "init"
    [] s = "scanning" -> "scanning"
    [] s \in {"stoppingPreviousScan", "connectingToDevice", "savingDeviceId"}
         -> "connecting"
    [] s \in {"discoveringServices", "ready", "togglingLed", "readingButton"}
         -> "connected"
    [] s = "disconnecting" -> "disconnecting"

\* ------------------------------------------------------------- actions:

clearError(c) == [c EXCEPT !.error = None]

setError(c, message) == [c EXCEPT !.error = message]

\* params.deviceName || null
setDeviceId(c, id, name) ==
  [c EXCEPT !.deviceId = id,
            !.deviceName = IF name = "" THEN None ELSE name]

\* Mutant: the name outlives the id.
clearDeviceIdOnly(c) == [c EXCEPT !.deviceId = None]

clearDeviceId(c) == [c EXCEPT !.deviceId = None, !.deviceName = None]

setButtonState(c, value) == [c EXCEPT !.buttonState = value]

\* Mutant: the flag is left as it is.
toggleLedStateNoFlip(c) == c

toggleLedState(c) == [c EXCEPT !.ledState = ~c.ledState]

Ids(devs) == {devs[i].id : i \in 1..Len(devs)}

\* Mutant: every advertisement is appended.
addDiscoveredDeviceAppend(c, peripheral) ==
  [c EXCEPT !.discoveredDevices = Append(c.discoveredDevices, peripheral)]

\* Mutant: a known device moves to the end of the list.
addDiscoveredDeviceMoveToEnd(c, peripheral) ==
  [c EXCEPT !.discoveredDevices =
     Append(SelectSeq(c.discoveredDevices,
                      LAMBDA p : p.id # peripheral.id), peripheral)]

addDiscoveredDevice(c, peripheral) ==
  LET devs == c.discoveredDevices IN
  IF peripheral.id \in Ids(devs)
    THEN [c EXCEPT !.discoveredDevices =
            [i \in 1..Len(devs) |->
               IF devs[i].id = peripheral.id THEN peripheral ELSE devs[i]]]
    ELSE [c EXCEPT !.discoveredDevices = Append(devs, peripheral)]

clearDiscoveredDevices(c) == [c EXCEPT !.discoveredDevices = <<>>]

\* Mutant: the button value outlives the connection.
resetForRetryErrorOnly(c) == [c EXCEPT !.error = None]

\* Mutant: the teardown switches the LED flag off.
resetForRetryAlsoLed(c) ==
  [c EXCEPT !.error = None, !.buttonState = None, !.ledState = FALSE]

resetForRetry(c) == [c EXCEPT !.error = None, !.buttonState = None]

\* (event.error as Error)?.message || fallback
ErrorMessage(message, fallback) == IF message = "" THEN fallback ELSE message

InitialContext ==
  [deviceId |-> None, deviceName |-> None, buttonState |-> None,
   ledState |-> FALSE, error |-> None, discoveredDevices |-> <<>>]

\* ------------------------------------------------------ invoked actors

NoChild == [src |-> "none", deviceId |-> None, ledState |-> FALSE]

Invoke(src, id, led) == [src |-> src, deviceId |-> id, ledState |-> led]

\* The actor a state invokes, with the input computed from the context the
\* state is entered with (after its entry actions).
InvokeOf(s, c) ==
  CASE s = "checkingBle" -> Invoke("checkBleAndPermissions", None, FALSE)
    [] s = "loadingStoredDevice" -> Invoke("loadStoredDeviceId", None, FALSE)
    [] s = "scanning" -> Invoke("scanForDevices", None, FALSE)
    [] s = "stoppingPreviousScan" -> Invoke("stopScanning", None, FALSE)
    [] s = "connectingToDevice" -> Invoke("connectToDevice", c.deviceId, FALSE)
    [] s = "savingDeviceId" -> Invoke("saveDeviceId", c.deviceId, FALSE)
    [] s = "discoveringServices"
         -> Invoke("discoverServicesAndSetup", c.deviceId, FALSE)
    [] s = "togglingLed" -> Invoke("writeLedState", c.deviceId, c.ledState)
    [] s = "readingButton" -> Invoke("readButtonState", c.deviceId, FALSE)
    [] s = "disconnecting" -> Invoke("disconnectFromDevice", c.deviceId, FALSE)
    [] OTHER -> NoChild

\* Mutant: scanning's entry leaves the list.
EntryActionsNoClear(s, c) ==
  CASE s = "togglingLed" -> toggleLedState(c)
    [] OTHER -> c

\* entry: [...] of a state.
EntryActions(s, c) ==
  CASE s = "scanning" -> clearDiscoveredDevices(c)
    [] s = "togglingLed" -> toggleLedState(c)
    [] OTHER -> c

\* The messages a rejected promise of each actor may carry.  "" stands for a
\* rejection without a message: BleManager and AsyncStorage reject with
\* values that are no Error, the actors' own throws carry a message.
ErrorsOf(src) ==
  CASE src = "checkBleAndPermissions"
         -> {"", "Bluetooth is off"}
    [] src = "loadStoredDeviceId" -> {""}
    [] src = "scanForDevices" -> {""}
    [] src = "stopScanning" -> {""}
    [] src = "connectToDevice" -> {""}
    [] src = "saveDeviceId" -> {""}
    [] src = "discoverServicesAndSetup"
         -> {"", "LBS Service not found on device"}
    [] src = "writeLedState" -> {""}
    [] src = "readButtonState" -> {""}
    [] OTHER -> {}

StaleTotal == stale["scanForDevices"] + stale["connectToDevice"]
              + stale["discoverServicesAndSetup"] + stale["writeLedState"]
              + stale["readButtonState"] + stale["checkBleAndPermissions"]
              + stale["loadStoredDeviceId"] + stale["stopScanning"]
              + stale["saveDeviceId"] + stale["disconnectFromDevice"]

\* Leaving a state stops its invoked actor; the promise itself goes on.
StopChild ==
  IF child = NoChild THEN stale ELSE [stale EXCEPT ![child.src] = @ + 1]

CanStopChild == child = NoChild \/ StaleTotal < MaxStale


\* ------------------------------------------------------------- selectors

\* state.value is a string for an atomic top-level state and an object
\* {phase: substate} for a compound one.
ValueIsString(s) == s \in {"idle", "scanning", "disconnecting"}

\* Mutant: the state value is compared as a string only.
selectIsConnectedFlat(s) == s = "connected"

selectIsConnected(s) ==
  IF ValueIsString(s) THEN s = "connected" ELSE Phase(s) = "connected"

\* The state value itself, or the first key of the object.
selectCurrentState(s) == IF ValueIsString(s) THEN s ELSE Phase(s)

\* state.value === name
ValueEquals(s, name) == ValueIsString(s) /\ s = name

\* typeof state.value === 'object' && key in state.value
KeyInValue(s, key) == ~ValueIsString(s) /\ Phase(s) = key

\* The phase flags of ble-machine.ts.
selectIsIdle(s) == IF ValueIsString(s) THEN s = "idle" ELSE FALSE

selectIsInit(s) ==
  IF ValueIsString(s) THEN s = "init" ELSE KeyInValue(s, "init")

selectIsScanning(s) == IF ValueIsString(s) THEN s = "scanning" ELSE FALSE

selectIsConnecting(s) ==
  IF ValueIsString(s) THEN s = "connecting" ELSE KeyInValue(s, "connecting")

selectIsDisconnecting(s) ==
  IF ValueIsString(s) THEN s = "disconnecting" ELSE FALSE

\* The phase flags of selectors.ts, the ones useBluetooth serves.
SelectorsIsIdle(s) == ValueEquals(s, "idle")

SelectorsIsInit(s) == ValueEquals(s, "init")

SelectorsIsScanning(s) == ValueEquals(s, "scanning")

SelectorsIsConnecting(s) == ValueEquals(s, "connecting")

SelectorsIsConnected(s) ==
  ValueEquals(s, "connected") \/ KeyInValue(s, "connected")

\* (state.value as Record).connected === 'disconnecting': no sub-state of
\* connected has that name.
SelectorsIsDisconnecting(s) ==
  KeyInValue(s, "connected") /\ s = "connected.disconnecting"

\* ------------------------------------------------------------ transitions

Ev(type) == [type |-> type, arg |-> "none"]

\* A message that carries an actor's src or a device id.
EvOf(type, arg) == [type |-> type, arg |-> arg]

NoAttempt == [target |-> None, storeBefore |-> None, via |-> None]

NoAdv == [d \in {} |-> None]

\* A transition with a target: exit (the invoked actor is stopped; st is the
\* stale promises after it), the transition's actions (c1 is the context
\* after them), entry, invoke.
Goto(ev, target, c1, st) ==
  LET c2 == EntryActions(target, c1) IN
  /\ state' = target
  /\ context' = c2
  /\ child' = InvokeOf(target, c2)
  /\ stale' = st
  /\ lastEvent' = ev
  /\ attempt' =
       IF target = "stoppingPreviousScan"
         THEN [target |-> c1.deviceId, storeBefore |-> store,
               via |-> ev.type]
         ELSE IF target \in {"idle", "ready"} THEN NoAttempt ELSE attempt
  /\ ledAtToggle' = IF target = "togglingLed" THEN c1.ledState ELSE None
  /\ lastAdv' = IF target = "scanning" THEN NoAdv ELSE lastAdv

\* No transition of the current state (or of the root) handles the event: the
\* snapshot stays as it is.
Ignored == UNCHANGED vars

\* A transition without a target: only the context changes.
Stay(ev, c1) ==
  /\ context' = c1
  /\ lastEvent' = ev
  /\ UNCHANGED <<state, child, stale, attempt, ledAtToggle, lastAdv>>

\* --------------------------------------------------------------- events

\* idle.on.START
START ==
  /\ IF state = "idle"
       THEN Goto(Ev("START"), "checkingBle", clearError(context), StopChild)
       ELSE Ignored
  /\ UNCHANGED store

\* Mutant: SELECT_DEVICE is also taken while a connect is running.
SelectDeviceStatesAlsoConnecting == {"scanning", "connectingToDevice"}

\* The states whose `on` handles SELECT_DEVICE.
SelectDeviceStates == {"scanning"}

\* scanning.on.SELECT_DEVICE
SELECT_DEVICE(deviceId, deviceName) ==
  /\ IF state \in SelectDeviceStates
       THEN /\ CanStopChild
            /\ Goto(EvOf("SELECT_DEVICE", deviceId), "stoppingPreviousScan",
                    setDeviceId(context, deviceId, deviceName), StopChild)
       ELSE Ignored
  /\ UNCHANGED store

\* scanning.on.SCAN (reenter)
SCAN ==
  /\ IF state = "scanning"
       THEN /\ CanStopChild
            /\ Goto(Ev("SCAN"), "scanning", context, StopChild)
       ELSE Ignored
  /\ UNCHANGED store

\* scanning.on.STOP_SCAN has no actions and no target, and no other state
\* handles the event: it changes nothing anywhere.
STOP_SCAN == UNCHANGED vars

\* RETRY is an event of BleEvent that no state handles.
RETRY == Ignored

\* Mutant: advertisements are also taken while connecting.
DeviceDiscoveredStatesAlsoConnecting ==
  {"scanning", "stoppingPreviousScan", "connectingToDevice"}

\* The states whose `on` handles DEVICE_DISCOVERED.
DeviceDiscoveredStates == {"scanning"}

\* scanning.on.DEVICE_DISCOVERED
DEVICE_DISCOVERED(peripheral) ==
  /\ IF state \in DeviceDiscoveredStates
       THEN /\ context' = addDiscoveredDevice(context, peripheral)
            /\ lastAdv' = [d \in DOMAIN lastAdv \cup {peripheral.id} |->
                             IF d = peripheral.id THEN peripheral
                                                  ELSE lastAdv[d]]
            /\ lastEvent' = EvOf("DEVICE_DISCOVERED", peripheral.id)
            /\ UNCHANGED <<state, child, stale, attempt, ledAtToggle>>
       ELSE Ignored
  /\ UNCHANGED store

\* The first byte of a button notification.
Byte(value) == IF value THEN "1" ELSE "0"

\* connected.ready.on.BUTTON_STATE_CHANGED.  connected.togglingLed and
\* connected.readingButton have no transition for the event: the machine
\* takes it and the snapshot stays as it is (the history records it).
BUTTON_STATE_CHANGED(value) ==
  /\ IF state = "ready"
       THEN Stay(EvOf("BUTTON_STATE_CHANGED", Byte(value)),
                 setButtonState(context, value))
       ELSE IF state \in {"togglingLed", "readingButton"}
         THEN Stay(EvOf("BUTTON_STATE_CHANGED", Byte(value)), context)
         ELSE Ignored
  /\ UNCHANGED store

\* Mutant: TOGGLE_LED is also taken while a write is outstanding.
ToggleLedStatesAlsoToggling == {"ready", "togglingLed"}

\* The states whose `on` handles TOGGLE_LED.
ToggleLedStates == {"ready"}

\* connected.ready.on.TOGGLE_LED
TOGGLE_LED ==
  /\ IF state \in ToggleLedStates
       THEN Goto(Ev("TOGGLE_LED"), "togglingLed", context, StopChild)
       ELSE Ignored
  /\ UNCHANGED store

\* connected.ready.on.READ_BUTTON
READ_BUTTON ==
  /\ IF state = "ready"
       THEN Goto(Ev("READ_BUTTON"), "readingButton", context, StopChild)
       ELSE Ignored
  /\ UNCHANGED store

\* Mutant: the teardown of an unsolicited disconnect rolls the LED back.
OnDisconnectWithRollback ==
  IF Phase(state) = "connected"
    THEN /\ CanStopChild
         /\ Goto(Ev("DISCONNECT"), "disconnecting",
                 IF state = "togglingLed" THEN toggleLedState(context)
                                          ELSE context,
                 StopChild)
    ELSE Ignored

\* Mutant: DISCONNECT also cancels a connection attempt.
DisconnectPhasesAlsoConnecting == {"connecting", "connected"}

\* The top-level states whose `on` (or whose sub-state's) handles DISCONNECT.
DisconnectPhases == {"connected"}

\* connected.on.DISCONNECT and connected.ready.on.DISCONNECT
OnDisconnect ==
  IF Phase(state) \in DisconnectPhases
    THEN /\ CanStopChild
         /\ Goto(Ev("DISCONNECT"), "disconnecting", context, StopChild)
    ELSE Ignored

\* The user's disconnect().
DISCONNECT ==
  /\ OnDisconnect
  /\ UNCHANGED store

\* BleManager.onDisconnectPeripheral: DISCONNECT is sent only while the
\* snapshot is connected.
disconnectListener ==
  /\ IF selectIsConnected(state) THEN OnDisconnect ELSE Ignored
  /\ UNCHANGED store

\* on.CLEAR_STORED_DEVICE of the machine's root.  removeItem may fail; the
\* failure is swallowed.
CLEAR_STORED_DEVICE(removed) ==
  /\ context' = clearDeviceId(context)
  /\ store' = IF removed THEN None ELSE store
  /\ lastEvent' = Ev("CLEAR_STORED_DEVICE")
  /\ attempt' = IF attempt = NoAttempt THEN attempt
                ELSE [attempt EXCEPT !.storeBefore = store']
  /\ UNCHANGED <<state, child, stale, ledAtToggle, lastAdv>>

\* ---------------------------------------------------------- completions

\* What a resolved promise of each actor carries.
OutputsOf(src) ==
  CASE src = "loadStoredDeviceId" -> {store}
    [] src \in {"discoverServicesAndSetup", "readButtonState"} -> BOOLEAN
    [] OTHER -> {None}

\* A promise resolved with a value / rejected with a message.
Resolved(v) == [ok |-> TRUE, output |-> v, message |-> ""]

Rejected(m) == [ok |-> FALSE, output |-> None, message |-> m]

\* What the peripheral and BleManager do during one run of
\* discoverServicesAndSetup: retrieveServices rejects, or returns services
\* without or with the LBS service; startNotification succeeds or rejects;
\* read rejects or returns the button byte.
SetupRuns ==
  [retrieveServices : {"rejected", "noLBS", "LBS"},
   startNotification : BOOLEAN,
   read : {"rejected", "0", "1"}]

\* Mutant: the services are not checked for LBS.
discoverServicesAndSetupNoVerify(run) ==
  IF run.retrieveServices = "rejected" THEN Rejected("")
  ELSE IF ~run.startNotification THEN Rejected("")
  ELSE IF run.read = "rejected" THEN Rejected("")
  ELSE Resolved(run.read # "0")

\* The promise of discoverServicesAndSetup for a run: retrieveServices, the
\* check for the LBS service, startNotification, the initial read.
discoverServicesAndSetup(run) ==
  IF run.retrieveServices = "rejected" THEN Rejected("")
  ELSE IF run.retrieveServices # "LBS"
    THEN Rejected("LBS Service not found on device")
  ELSE IF ~run.startNotification THEN Rejected("")
  ELSE IF run.read = "rejected" THEN Rejected("")
  ELSE Resolved(run.read # "0")

\* Mutant: the error of BleManager.disconnect is not caught.
disconnectFromDeviceNoCatch(disconnected) ==
  IF disconnected THEN Resolved(None) ELSE Rejected("")

\* The promise of disconnectFromDevice when BleManager.disconnect resolves
\* (disconnected) or rejects: the catch swallows the rejection.
disconnectFromDevice(disconnected) ==
  IF disconnected THEN Resolved(None) ELSE Resolved(None)

\* The outcomes of an actor's promise.
Outcomes(src) ==
  CASE src = "discoverServicesAndSetup"
         -> {discoverServicesAndSetup(run) : run \in SetupRuns}
    [] src = "disconnectFromDevice"
         -> {disconnectFromDevice(disconnected) : disconnected \in BOOLEAN}
    [] OTHER -> {Resolved(v) : v \in OutputsOf(src)}
                \cup {Rejected(m) : m \in ErrorsOf(src)}

\* Mutant: a failed check goes on to the Device Store.
CheckOnErrorTargetProceed == "loadingStoredDevice"

\* init.checkingBle.invoke.onError: the target
CheckOnErrorTarget == "idle"

\* Mutant: a failed read of the store ends the start.
LoadOnErrorTargetIdle == "idle"

\* init.loadingStoredDevice.invoke.onError: the target
LoadOnErrorTarget == "scanning"

\* Mutant: the end of the scan empties the list.
onScanDoneClears(c) == clearDiscoveredDevices(c)

\* scanning.invoke has no onDone: the resolved scan changes no context.
onScanDone(c) == c

\* Mutant: a failed save gives the connection up.
SaveOnErrorTargetIdle == "idle"

\* connecting.savingDeviceId.invoke.onError: the target (connected's initial
\* state)
SaveOnErrorTarget == "discoveringServices"

\* Mutant: a failed connect is tried again.
ConnectOnErrorTargetRetry == "stoppingPreviousScan"

\* connecting.connectingToDevice.invoke.onError: the target
ConnectOnErrorTarget == "idle"

\* Mutant: the failed write leaves the flipped flag.
onWriteErrorNoRevert(c, message) ==
  setError(c, ErrorMessage(message, "LED toggle failed"))

\* togglingLed.invoke.onError: the actions
onWriteError(c, message) ==
  setError(toggleLedState(c), ErrorMessage(message, "LED toggle failed"))

\* Mutant: a failed save empties the store.
saveDeviceIdClearsOnFailure(a, o) ==
  IF o.ok /\ a.deviceId # None THEN a.deviceId ELSE None

\* AsyncStorage.setItem(STORAGE_KEY, input.deviceId): a null value is not
\* stored.
saveDeviceId(a, o) ==
  IF o.ok /\ a.deviceId # None THEN a.deviceId ELSE store

\* The onDone / onError transition of the state that invoked actor a, for
\* the outcome o of its promise; st is the stale promises after it.
OnSettled(a, o, st) ==
  LET ev == EvOf(IF o.ok THEN "done" ELSE "error", a.src) IN
  CASE a.src = "checkBleAndPermissions" ->
         /\ IF o.ok
              THEN Goto(ev, "loadingStoredDevice", context, st)
              ELSE Goto(ev, CheckOnErrorTarget,
                        setError(context,
                                 ErrorMessage(o.message,
                                              "BLE initialization failed")),
                        st)
         /\ UNCHANGED store
    [] a.src = "loadStoredDeviceId" ->
         /\ IF o.ok /\ o.output # None
              THEN Goto(ev, "stoppingPreviousScan",
                        setDeviceId(context, o.output, ""), st)
              ELSE IF o.ok
                THEN Goto(ev, "scanning", context, st)
                ELSE Goto(ev, LoadOnErrorTarget, context, st)
         /\ UNCHANGED store
    [] a.src = "scanForDevices" ->
         /\ IF o.ok
              THEN /\ child' = IF a = child THEN NoChild ELSE child
                   /\ stale' = st
                   /\ lastEvent' = ev
                   /\ context' = onScanDone(context)
                   /\ UNCHANGED <<state, attempt, ledAtToggle, lastAdv>>
              ELSE Goto(ev, "idle",
                        setError(context,
                                 ErrorMessage(o.message, "Scan failed")),
                        st)
         /\ UNCHANGED store
    [] a.src = "stopScanning" ->
         /\ Goto(ev, "connectingToDevice", context, st)
         /\ UNCHANGED store
    [] a.src = "connectToDevice" ->
         /\ IF o.ok
              THEN Goto(ev, "savingDeviceId", context, st)
              ELSE Goto(ev, ConnectOnErrorTarget,
                        setError(clearDeviceId(context),
                                 ErrorMessage(o.message, "Connection failed")),
                        st)
         /\ UNCHANGED store
    [] a.src = "saveDeviceId" ->
         /\ IF o.ok
              THEN Goto(ev, "discoveringServices", context, st)
              ELSE Goto(ev, SaveOnErrorTarget, context, st)
         /\ store' = saveDeviceId(a, o)
    [] a.src = "discoverServicesAndSetup" ->
         /\ IF o.ok
              THEN Goto(ev, "ready", setButtonState(context, o.output),
                        st)
              ELSE Goto(ev, "disconnecting",
                        setError(context,
                                 ErrorMessage(o.message,
                                              "Service discovery failed")),
                        st)
         /\ UNCHANGED store
    [] a.src = "writeLedState" ->
         /\ IF o.ok
              THEN Goto(ev, "ready", context, st)
              ELSE Goto(ev, "ready", onWriteError(context, o.message),
                        st)
         /\ UNCHANGED store
    [] a.src = "readButtonState" ->
         /\ IF o.ok
              THEN Goto(ev, "ready", setButtonState(context, o.output),
                        st)
              ELSE Goto(ev, "ready",
                        setError(context,
                                 ErrorMessage(o.message, "Read button failed")),
                        st)
         /\ UNCHANGED store
    [] a.src = "disconnectFromDevice" ->
         /\ Goto(ev, "idle", resetForRetry(clearDeviceId(context)), st)
         /\ UNCHANGED store

\* Mutant: a stopped actor still hands its result to the machine.
DeliversResultAlways(active) == TRUE

\* A promise actor hands its result to the machine only while it is active:
\* an actor stopped by the exit of its state drops it.
DeliversResult(active) == active

\* The promise of the invoked actor settles.
ChildSettled ==
  /\ child # NoChild
  /\ \E o \in Outcomes(child.src) : OnSettled(child, o, stale)

\* The promise of a stopped actor settles.
StaleSettled ==
  \E src \in Srcs :
    /\ stale[src] > 0
    /\ \E o \in Outcomes(src) :
         LET st == [stale EXCEPT ![src] = @ - 1] IN
         IF DeliversResult(FALSE)
           THEN OnSettled(Invoke(src, None, FALSE), o, st)
           ELSE /\ stale' = st
                /\ lastEvent' = EvOf("dropped", src)
                /\ UNCHANGED <<state, context, child, store, attempt,
                               ledAtToggle, lastAdv>>

\* ------------------------------------------------------------ behaviours

\* createActor(bleMachine).start(); the Device Store holds what an earlier
\* run of the application left in it.
Init ==
  /\ state = "idle"
  /\ context = InitialContext
  /\ child = NoChild
  /\ stale = [s \in Srcs |-> 0]
  /\ store \in {None} \cup Devices
  /\ lastEvent = Ev("xstate.init")
  /\ attempt = NoAttempt
  /\ ledAtToggle = None
  /\ lastAdv = NoAdv

Next ==
  \/ START
  \/ SCAN
  \/ STOP_SCAN
  \/ RETRY
  \/ \E d \in Devices, n \in Names : SELECT_DEVICE(d, n)
  \/ \E p \in Peripherals : DEVICE_DISCOVERED(p)
  \/ \E v \in BOOLEAN : BUTTON_STATE_CHANGED(v)
  \/ TOGGLE_LED
  \/ READ_BUTTON
  \/ DISCONNECT
  \/ disconnectListener
  \/ \E removed \in BOOLEAN : CLEAR_STORED_DEVICE(removed)
  \/ ChildSettled
  \/ StaleSettled

Spec == Init /\ [][Next]_vars

\* Every invoked operation eventually completes: the promise of the actor
\* the current state invoked settles, with success or failure, whatever
\* events arrive in the meantime.
LiveSpec == Init /\ [][Next]_vars /\ WF_vars(ChildSettled)

\* ============================================================== claims

\* BleManager.connect promises that have not settled.
OutstandingConnects ==
  (IF child.src = "connectToDevice" THEN 1 ELSE 0) + stale["connectToDevice"]

\* C1: at most one connect is ever outstanding, the only active actor is the
\* one the current state invokes, and a SELECT_DEVICE or START received while
\* the phase is connecting, connected or disconnecting changes nothing (it
\* starts no connect).
C1_AtMostOneInFlight ==
  /\ [](/\ OutstandingConnects <= 1
        /\ child.src \in {"none", InvokeOf(state, context).src})
  /\ [][(/\ Phase(state) \in {"connecting", "connected", "disconnecting"}
         /\ \/ START
            \/ \E d \in Devices, n \in Names : SELECT_DEVICE(d, n))
        => UNCHANGED vars]_vars

\* A connect is outstanding for the device of the running attempt.
C1_Witness ==
  /\ state = "connectingToDevice"
  /\ OutstandingConnects = 1
  /\ child.deviceId \in Devices
  /\ attempt.via = "SELECT_DEVICE"

\* C2: a step in which the promise of a stopped actor settles (with success
\* or failure) changes neither the state nor any context field.
C2_StaleCompletionIsNoOp ==
  [][(\E src \in Srcs : stale'[src] < stale[src])
     => UNCHANGED <<state, context, child, store>>]_vars

\* The scan's promise settled after SELECT_DEVICE had moved the machine to
\* connecting.
C2_Witness ==
  /\ lastEvent = EvOf("dropped", "scanForDevices")
  /\ Phase(state) = "connecting"
  /\ context.error = None

\* C3 (as claimed): a teardown started by DISCONNECT ends, when the
\* disconnect operation completes, with deviceId and buttonState none and
\* the phase init.
C3_DisconnectEndsInInit ==
  [][(/\ state = "disconnecting"
      /\ lastEvent.type = "DISCONNECT"
      /\ state' # "disconnecting")
     => (/\ Phase(state') = "init"
         /\ context'.deviceId = None
         /\ context'.buttonState = None)]_vars

\* C4 (as claimed): when service discovery and setup fail after a successful
\* connect, the Device Store holds what it held before the attempt (or what
\* a forget in between left in it).
C4_StoreWrittenOnlyOnFullSuccess ==
  lastEvent = EvOf("error", "discoverServicesAndSetup")
    => store = attempt.storeBefore

\* C5 (as claimed): in connecting and connected the context deviceId is set.
C5_DeviceIdSetWhileConnected ==
  Phase(state) \in {"connecting", "connected"} => context.deviceId # None

\* C6: a failing write delivered in connected.togglingLed ends in
\* connected.ready with ledState back at the value it had when TOGGLE_LED
\* was taken, and error set to the failure's message.
C6_FailedWriteRevertsLed ==
  [][(state = "togglingLed" /\ lastEvent' = EvOf("error", "writeLedState"))
     => (/\ state' = "ready"
         /\ context'.ledState = ledAtToggle
         /\ \E m \in ErrorsOf("writeLedState") :
              context'.error = ErrorMessage(m, "LED toggle failed"))]_vars

\* A write failed after an earlier toggle had succeeded: the LED is on again.
C6_Witness ==
  /\ state = "ready"
  /\ lastEvent = EvOf("error", "writeLedState")
  /\ context.ledState = TRUE
  /\ context.error = "LED toggle failed"

\* C7: TOGGLE_LED taken in connected.ready enters connected.togglingLed with
\* ledState flipped and a write of the flipped value invoked; the write's
\* success ends in connected.ready with the flipped value.
C7_OptimisticLedRoundTrip ==
  /\ [][(state = "ready" /\ lastEvent'.type = "TOGGLE_LED")
        => (/\ state' = "togglingLed"
            /\ context'.ledState = ~context.ledState
            /\ child' = Invoke("writeLedState", context.deviceId,
                               ~context.ledState))]_vars
  /\ [][(state = "togglingLed" /\ lastEvent' = EvOf("done", "writeLedState"))
        => (/\ state' = "ready"
            /\ context'.ledState = ~ledAtToggle)]_vars

\* A write of TRUE succeeded.
C7_Witness ==
  /\ state = "ready"
  /\ lastEvent = EvOf("done", "writeLedState")
  /\ context.ledState = TRUE

\* C8: discoveredDevices holds exactly one entry per device id advertised
\* since the scan started, and each entry is the last advertisement taken
\* for its id.
C8_UpsertCorrect ==
  LET devs == context.discoveredDevices IN
  /\ Ids(devs) = DOMAIN lastAdv
  /\ Len(devs) = Cardinality(DOMAIN lastAdv)
  /\ \A i \in 1..Len(devs) : devs[i] = lastAdv[devs[i].id]

\* A was advertised, then B, then A again: two entries, A first with its
\* last advertisement.
C8_Witness ==
  /\ state = "scanning"
  /\ lastEvent = EvOf("DEVICE_DISCOVERED", "A")
  /\ context.discoveredDevices
       = <<[id |-> "A", rssi |-> MaxRssi], [id |-> "B", rssi |-> 1]>>

\* C9 (as claimed): when the Device Store returns a remembered id, the
\* machine is in connecting with that id and discoveredDevices is empty.
C9_RememberedDeviceFastPath ==
  (lastEvent = EvOf("done", "loadStoredDeviceId") /\ store # None)
    => (/\ Phase(state) = "connecting"
        /\ context.deviceId = store
        /\ context.discoveredDevices = <<>>)

\* C10 (as claimed): with nothing remembered the machine goes to scanning; a
\* SELECT_DEVICE for D taken there enters connecting with deviceId = D, and
\* the connect of that attempt is invoked for D.
C10_NoRememberedDevicePath ==
  /\ (lastEvent = EvOf("done", "loadStoredDeviceId") /\ store = None)
       => state = "scanning"
  /\ \A d \in Devices :
       lastEvent = EvOf("SELECT_DEVICE", d)
         => (state = "stoppingPreviousScan" /\ context.deviceId = d)
  /\ (/\ state = "connectingToDevice"
      /\ attempt.via = "SELECT_DEVICE"
      /\ attempt.storeBefore = None)
       => child = Invoke("connectToDevice", attempt.target, FALSE)

\* C11 (as claimed): a CLEAR_STORED_DEVICE taken in any state leaves the
\* Device Store empty and deviceId and deviceName none, and changes neither
\* the state nor the invoked actor.
C11_ForgetClearsStoreAndContext ==
  [][(lastEvent' = Ev("CLEAR_STORED_DEVICE"))
     => (/\ store' = None
         /\ context'.deviceId = None
         /\ context'.deviceName = None
         /\ state' = state
         /\ child' = child)]_vars

\* The actors whose failure the machine takes to a state at rest directly.
SurfacedAtOnce ==
  {"checkBleAndPermissions", "scanForDevices", "connectToDevice",
   "writeLedState", "readButtonState"}

\* C12 (as claimed): when the machine comes to rest (idle or connected.ready)
\* after the failure of the init check, the scan, the connect, the setup, a
\* button read or an LED write, error is not none.
C12_FailuresSurfaced ==
  /\ [][(/\ child.src \in SurfacedAtOnce
         /\ lastEvent' = EvOf("error", child.src)
         /\ state' \in {"idle", "ready"})
        => context'.error # None]_vars
  /\ [][(/\ state = "disconnecting"
         /\ lastEvent = EvOf("error", "discoverServicesAndSetup")
         /\ state' = "idle")
        => context'.error # None]_vars

\* C13: nothing runs in idle and only START leaves it; a failed connect ends
\* in idle and a failed setup in disconnecting, which ends in idle; a
\* connect is invoked only when the stop-scan of an attempt settles, an
\* attempt starts only from the read of the store that follows a START or
\* from a SELECT_DEVICE in scanning, and a scan starts only from that read or
\* from a SCAN in scanning.
C13_NoAutomaticRetry ==
  /\ [](state = "idle" => child = NoChild)
  /\ [][(state = "idle" /\ state' # "idle")
        => (lastEvent' = Ev("START") /\ state' = "checkingBle")]_vars
  /\ [][(state = "connectingToDevice"
           /\ lastEvent' = EvOf("error", "connectToDevice"))
        => (state' = "idle" /\ child' = NoChild)]_vars
  /\ [][(state = "discoveringServices"
           /\ lastEvent' = EvOf("error", "discoverServicesAndSetup"))
        => state' = "disconnecting"]_vars
  /\ [][(state = "disconnecting" /\ state' # "disconnecting")
        => (state' = "idle" /\ child' = NoChild)]_vars
  /\ [][(state' = "connectingToDevice" /\ state # "connectingToDevice")
        => state = "stoppingPreviousScan"]_vars
  /\ [][(state' = "stoppingPreviousScan" /\ state # "stoppingPreviousScan")
        => \/ state = "loadingStoredDevice"
           \/ state = "scanning" /\ lastEvent'.type = "SELECT_DEVICE"]_vars
  /\ [][(state' = "loadingStoredDevice" /\ state # "loadingStoredDevice")
        => state = "checkingBle"]_vars
  /\ [][(state' = "checkingBle" /\ state # "checkingBle")
        => (state = "idle" /\ lastEvent' = Ev("START"))]_vars
  /\ [][(state' = "scanning" /\ child' # child)
        => \/ state = "loadingStoredDevice"
           \/ state = "scanning"
              /\ lastEvent' \in {Ev("SCAN"),
                                 EvOf("done", "scanForDevices")}]_vars

\* The connect to the remembered device failed: the machine is in idle with
\* the error, nothing invoked, and no scan has collected anything.
C13_Witness ==
  /\ state = "idle"
  /\ lastEvent = EvOf("error", "connectToDevice")
  /\ context.error = "Connection failed"
  /\ store \in Devices
  /\ context.discoveredDevices = <<>>
  /\ child = NoChild

\* C14 (as claimed): a rejected scan and a failed connect both take the
\* machine to init with error set, the failed connect with deviceId and
\* deviceName none.
C14_InitIsRecoveryHub ==
  /\ [][(state = "scanning" /\ lastEvent' = EvOf("error", "scanForDevices"))
        => (Phase(state') = "init" /\ context'.error # None)]_vars
  /\ [][(state = "connectingToDevice"
           /\ lastEvent' = EvOf("error", "connectToDevice"))
        => (/\ Phase(state') = "init"
            /\ context'.error # None
            /\ context'.deviceId = None
            /\ context'.deviceName = None)]_vars

C17_DiscoveredClearedOnScanEntry ==
  /\ [][(state' = "scanning"
           /\ (state # "scanning" \/ lastEvent' = Ev("SCAN")))
        => context'.discoveredDevices = <<>>]_vars
  /\ [][(/\ context'.discoveredDevices # context.discoveredDevices
         /\ context'.discoveredDevices # <<>>)
        => (state = "scanning" /\ state' = "scanning"
            /\ lastEvent'.type = "DEVICE_DISCOVERED")]_vars

\* SCAN was taken while the first scan was starting: the list is empty.
C17_Witness ==
  /\ state = "scanning"
  /\ lastEvent = Ev("SCAN")
  /\ stale["scanForDevices"] = 1
  /\ context.discoveredDevices = <<>>

\* C18: a run of the setup resolves exactly when retrieveServices returned
\* the LBS service, startNotification succeeded and the read returned, with
\* the button value read, and rejects with the service's absence when the
\* service is absent; connected is entered only from savingDeviceId, that
\* only when the connect resolved, and connected.ready from
\* discoveringServices only when the setup resolved; a rejected setup goes
\* to disconnecting, which is left only for idle.
C18_SetupAllOrNothing ==
  /\ [](\A run \in SetupRuns :
          /\ discoverServicesAndSetup(run).ok
               <=> (/\ run.retrieveServices = "LBS"
                    /\ run.startNotification
                    /\ run.read # "rejected")
          /\ discoverServicesAndSetup(run).ok
               => discoverServicesAndSetup(run).output = (run.read = "1")
          /\ run.retrieveServices = "noLBS"
               => discoverServicesAndSetup(run)
                    = Rejected("LBS Service not found on device"))
  /\ [][(state' = "savingDeviceId" /\ state # "savingDeviceId")
        => (/\ state = "connectingToDevice"
            /\ lastEvent' = EvOf("done", "connectToDevice"))]_vars
  /\ [][(Phase(state') = "connected" /\ Phase(state) # "connected")
        => (state = "savingDeviceId" /\ state' = "discoveringServices")]_vars
  /\ [][(state' = "ready" /\ Phase(state) # "connected")
        => FALSE]_vars
  /\ [][(state = "discoveringServices" /\ state' # "discoveringServices")
        => \/ /\ lastEvent' = EvOf("done", "discoverServicesAndSetup")
              /\ state' = "ready"
           \/ /\ lastEvent' = EvOf("error", "discoverServicesAndSetup")
              /\ state' = "disconnecting"
              /\ context'.error # None
           \/ /\ lastEvent' = Ev("DISCONNECT")
              /\ state' = "disconnecting"]_vars
  /\ [][(state = "disconnecting" /\ state' # "disconnecting")
        => state' = "idle"]_vars

\* The connect succeeded and the service was absent: the machine is tearing
\* the connection down with the failure as error.
C18_Witness ==
  /\ state = "disconnecting"
  /\ lastEvent = EvOf("error", "discoverServicesAndSetup")
  /\ context.error = "LBS Service not found on device"
  /\ attempt.target \in Devices

\* BleManager.scan promises that have not settled.
OutstandingScans ==
  (IF child.src = "scanForDevices" THEN 1 ELSE 0) + stale["scanForDevices"]

\* C19 (as claimed): at most one scan is outstanding, and scanning is
\* entered by SCAN only after a stop-scan.
C19_OneScanInFlight ==
  /\ [](OutstandingScans <= 1)
  /\ [][(state' = "scanning" /\ lastEvent' = Ev("SCAN"))
        => child.src = "stopScanning"]_vars

\* C20 (as claimed): every step that leaves scanning invokes the stop-scan,
\* and the connect is invoked only by the step in which that stop-scan
\* settles.
C20_LeavingScanningStopsScan ==
  /\ [][(state = "scanning" /\ state' # "scanning")
        => child' = Invoke("stopScanning", None, FALSE)]_vars
  /\ [][(child'.src = "connectToDevice" /\ child.src # "connectToDevice")
        => (/\ state = "stoppingPreviousScan"
            /\ lastEvent'.arg = "stopScanning"
            /\ lastEvent'.type \in {"done", "error"})]_vars

\* C21: the promise of the disconnect operation resolves whether
\* BleManager.disconnect resolved or rejected, and every step that leaves
\* disconnecting goes to idle with deviceId, deviceName and buttonState none
\* and error none.
C21_TeardownAlwaysCompletes ==
  /\ [](\A disconnected \in BOOLEAN :
          disconnectFromDevice(disconnected) = Resolved(None))
  /\ [][(state = "disconnecting" /\ state' # "disconnecting")
        => (/\ state' = "idle"
            /\ lastEvent'.arg = "disconnectFromDevice"
            /\ context'.deviceId = None
            /\ context'.deviceName = None
            /\ context'.buttonState = None
            /\ context'.error = None
            /\ context'.ledState = context.ledState
            /\ context'.discoveredDevices = context.discoveredDevices)]_vars

\* The teardown of a connection to a named device whose button had been
\* read has completed.
C21_Witness ==
  /\ state = "idle"
  /\ lastEvent = EvOf("done", "disconnectFromDevice")
  /\ context.deviceId = None
  /\ context.deviceName = None
  /\ context.buttonState = None
  /\ context.error = None
  /\ context.ledState = TRUE

\* C22: when the save of the device id settles, with success or failure,
\* the machine enters connected (discoveringServices) with the context
\* unchanged and the setup invoked for the context's device.
C22_FailedPersistDoesNotBlock ==
  [][(state = "savingDeviceId" /\ lastEvent'.arg = "saveDeviceId"
        /\ lastEvent'.type \in {"done", "error"})
     => (/\ state' = "discoveringServices"
         /\ context' = context
         /\ child' = Invoke("discoverServicesAndSetup", context.deviceId,
                            FALSE))]_vars

\* The save failed: nothing is stored, the setup is running, no error.
C22_Witness ==
  /\ state = "discoveringServices"
  /\ lastEvent = EvOf("error", "saveDeviceId")
  /\ store = None
  /\ context.deviceId \in Devices
  /\ context.error = None

\* C23: selectIsConnected is true exactly in the states whose top-level
\* state is connected, and selectCurrentState is "connected" there.
C23_ProjectionReportsOuterPhase ==
  /\ selectIsConnected(state) <=> Phase(state) = "connected"
  /\ Phase(state) = "connected" => selectCurrentState(state) = "connected"
  /\ selectCurrentState(state) = Phase(state)

\* The projection in a nested state.
C23_Witness ==
  /\ state = "togglingLed"
  /\ selectIsConnected(state)
  /\ selectCurrentState(state) = "connected"

\* The ids of a list, in the list's order.
IdSeq(devs) == [i \in 1..Len(devs) |-> devs[i].id]

\* C24: a DEVICE_DISCOVERED taken in scanning keeps the ids already in the
\* list at their positions, adds a new id at the end, and the list is as
\* long as the number of ids advertised since the scan started.
C24_InPlaceOrderStable ==
  /\ [](Len(context.discoveredDevices) = Cardinality(DOMAIN lastAdv))
  /\ [][(state = "scanning" /\ lastEvent'.type = "DEVICE_DISCOVERED")
        => LET old == context.discoveredDevices
               new == context'.discoveredDevices IN
           /\ SubSeq(IdSeq(new), 1, Len(old)) = IdSeq(old)
           /\ IF lastEvent'.arg \in Ids(old)
                THEN Len(new) = Len(old)
                ELSE /\ Len(new) = Len(old) + 1
                     /\ new[Len(new)].id = lastEvent'.arg]_vars

\* B was advertised, then A, then B again: B is still first.
C24_Witness ==
  /\ state = "scanning"
  /\ lastEvent = EvOf("DEVICE_DISCOVERED", "B")
  /\ Len(context.discoveredDevices) = 2
  /\ IdSeq(context.discoveredDevices) = <<"B", "A">>

\* v is null (v may be a boolean, which no equality compares with null).
IsNone(v) == ToString(v) = ToString(None)

\* C25: buttonState is none in idle, init, scanning, connecting and
\* connected.discoveringServices.
C25_ButtonUnsetUntilRead ==
  (Phase(state) \in {"idle", "init", "scanning", "connecting"}
     \/ state = "discoveringServices")
    => IsNone(context.buttonState)

\* A second connection is being set up after one in which the LED was
\* switched on: the button value of the first is gone.
C25_Witness ==
  /\ state = "discoveringServices"
  /\ context.ledState = TRUE
  /\ IsNone(context.buttonState)

\* C26 (as claimed): a button notification sets buttonState to its value when
\* it is taken in connected.ready, and a notification taken in
\* connected.togglingLed or connected.readingButton is the value of
\* buttonState when the machine is next in connected.ready, unless a button
\* read completed after it.
C26_ButtonIsLastDelivered ==
  /\ [][(state = "ready" /\ lastEvent'.type = "BUTTON_STATE_CHANGED")
        => context'.buttonState = (lastEvent'.arg = "1")]_vars
  /\ [][(/\ state \in {"togglingLed", "readingButton"}
         /\ lastEvent.type = "BUTTON_STATE_CHANGED"
         /\ state' = "ready"
         /\ lastEvent' # EvOf("done", "readButtonState"))
        => context'.buttonState = (lastEvent.arg = "1")]_vars

\* C27 (as claimed): whenever connected.ready is entered by the success of
\* the setup, of an LED write or of a button read, error is none.
C27_NoErrorAfterForwardProgress ==
  [][(/\ state \in {"discoveringServices", "togglingLed", "readingButton"}
      /\ state' = "ready"
      /\ lastEvent'.type = "done")
     => context'.error = None]_vars

\* C28 (as claimed): a failed LED write and a failed button read take the
\* machine to init with deviceId none and error set.
C28_MidConnectionFailureLeavesConnected ==
  [][(\/ state = "togglingLed" /\ lastEvent' = EvOf("error", "writeLedState")
      \/ state = "readingButton"
           /\ lastEvent' = EvOf("error", "readButtonState"))
     => (/\ Phase(state') = "init"
         /\ context'.deviceId = None
         /\ context'.error # None)]_vars

\* C29: a failed check ends in idle with the failure's message (or the
\* fallback) as error and nothing invoked; the Device Store is read only
\* when the check has succeeded, and a scan or an attempt starts only from
\* that read or from a user's SCAN or SELECT_DEVICE in scanning.
C29_FailedCheckStopsStart ==
  /\ [][(state = "checkingBle"
           /\ lastEvent' = EvOf("error", "checkBleAndPermissions"))
        => (/\ state' = "idle"
            /\ child' = NoChild
            /\ context'.error
                 \in {"Bluetooth is off", "BLE initialization failed"})]_vars
  /\ [][(state' = "loadingStoredDevice" /\ state # "loadingStoredDevice")
        => (/\ state = "checkingBle"
            /\ lastEvent' = EvOf("done", "checkBleAndPermissions"))]_vars
  /\ [][(state = "checkingBle" /\ state' # "checkingBle")
        => state' \in {"idle", "loadingStoredDevice"}]_vars
  /\ [](state = "idle" => child.src = "none")

\* The adapter was off: the machine is back in idle with the reason.
C29_Witness ==
  /\ state = "idle"
  /\ lastEvent = EvOf("error", "checkBleAndPermissions")
  /\ context.error = "Bluetooth is off"
  /\ child = NoChild
  /\ stale["loadStoredDeviceId"] = 0

\* C30 (as claimed): when the setup fails for the device the attempt
\* connected to, the machine enters disconnecting and a disconnect is invoked
\* for that device.
C30_FailedSetupDisconnects ==
  [][(/\ state = "discoveringServices"
      /\ attempt.target # None
      /\ child.deviceId = attempt.target
      /\ lastEvent' = EvOf("error", "discoverServicesAndSetup"))
     => (/\ state' = "disconnecting"
         /\ child' = Invoke("disconnectFromDevice", attempt.target,
                            FALSE))]_vars

\* The actors whose input is a device id.
DeviceAddressed ==
  {"connectToDevice", "saveDeviceId", "discoverServicesAndSetup",
   "writeLedState", "readButtonState", "disconnectFromDevice"}

\* C31 (as claimed): every actor invoked with a device id is invoked with an
\* id that is not none, and the disconnect of a teardown is invoked for the
\* device of the attempt.
C31_OperationsGetDeviceId ==
  /\ child.src \in DeviceAddressed => child.deviceId # None
  /\ (child.src = "disconnectFromDevice" /\ attempt.target # None)
       => child.deviceId = attempt.target

\* C32: in idle, init and scanning deviceId and deviceName are none.
C32_NoDeviceBeforeAttempt ==
  Phase(state) \in {"idle", "init", "scanning"}
    => (context.deviceId = None /\ context.deviceName = None)

\* The connect to a device selected by name from the list failed.
C32_Witness ==
  /\ state = "idle"
  /\ lastEvent = EvOf("error", "connectToDevice")
  /\ context.discoveredDevices # <<>>
  /\ context.deviceId = None
  /\ context.deviceName = None

C35_LedSurvivesTeardown ==
  [][(Phase(state) # "connected" \/ Phase(state') # "connected")
     => context'.ledState = context.ledState]_vars

\* A later connection is ready, no toggle taken in it, with the LED flag
\* the earlier connection left.
C35_Witness ==
  /\ state = "ready"
  /\ lastEvent = EvOf("done", "discoverServicesAndSetup")
  /\ context.ledState = TRUE

\* C36: the resolved scan changes neither the state nor the context, and
\* scanning is left only by SELECT_DEVICE or by the scan's rejection (SCAN
\* re-enters it); selectIsScanning holds throughout scanning.
C36_ScanDoneChangesNothing ==
  /\ [][(state = "scanning" /\ lastEvent' = EvOf("done", "scanForDevices"))
        => (/\ state' = "scanning"
            /\ context' = context
            /\ child' = NoChild)]_vars
  /\ [][(state = "scanning" /\ state' # "scanning")
        => \/ lastEvent'.type = "SELECT_DEVICE"
           \/ lastEvent' = EvOf("error", "scanForDevices")]_vars
  /\ [][(state = "scanning" /\ lastEvent' = Ev("SCAN"))
        => state' = "scanning"]_vars
  /\ [](state = "scanning" => selectIsScanning(state))

\* The scan has ended, with devices found, and the machine is in scanning.
C36_Witness ==
  /\ state = "scanning"
  /\ lastEvent = EvOf("done", "scanForDevices")
  /\ child = NoChild
  /\ context.discoveredDevices # <<>>
  /\ selectIsScanning(state)

Count(flags) == Cardinality({i \in DOMAIN flags : flags[i]})

\* C38 (as claimed): of the phase flags, those of ble-machine.ts and those
\* of selectors.ts alike, exactly one holds, the one of the top-level state.
C38_ExactlyOnePhaseFlag ==
  /\ Count(<<selectIsIdle(state), selectIsInit(state),
             selectIsScanning(state), selectIsConnecting(state),
             selectIsConnected(state), selectIsDisconnecting(state)>>) = 1
  /\ selectIsIdle(state) <=> Phase(state) = "idle"
  /\ selectIsInit(state) <=> Phase(state) = "init"
  /\ selectIsScanning(state) <=> Phase(state) = "scanning"
  /\ selectIsConnecting(state) <=> Phase(state) = "connecting"
  /\ selectIsConnected(state) <=> Phase(state) = "connected"
  /\ selectIsDisconnecting(state) <=> Phase(state) = "disconnecting"
  /\ Count(<<SelectorsIsIdle(state), SelectorsIsInit(state),
             SelectorsIsScanning(state), SelectorsIsConnecting(state),
             SelectorsIsConnected(state),
             SelectorsIsDisconnecting(state)>>) = 1
  /\ SelectorsIsInit(state) <=> Phase(state) = "init"
  /\ SelectorsIsConnecting(state) <=> Phase(state) = "connecting"
  /\ SelectorsIsDisconnecting(state) <=> Phase(state) = "disconnecting"

\* C39: in connecting, DISCONNECT (the user's or the listener's),
\* SELECT_DEVICE, SCAN and START change nothing; connecting's sub-states are
\* left only when their own actor settles, and the phase only for connected
\* or, when the connect fails, idle; a DISCONNECT taken in connected,
\* service discovery included, goes to disconnecting.
C39_AttemptCannotBeCancelled ==
  /\ [][(/\ Phase(state) = "connecting"
         /\ \/ DISCONNECT
            \/ disconnectListener
            \/ SCAN
            \/ START
            \/ \E d \in Devices, n \in Names : SELECT_DEVICE(d, n))
        => UNCHANGED vars]_vars
  /\ [][(Phase(state) = "connecting" /\ state' # state)
        => (/\ lastEvent'.type \in {"done", "error"}
            /\ lastEvent'.arg = InvokeOf(state, context).src
            /\ \/ Phase(state') = "connecting"
               \/ state' = "discoveringServices"
               \/ (state' = "idle"
                     /\ lastEvent' = EvOf("error", "connectToDevice")))]_vars
  /\ [][(Phase(state) = "connected" /\ lastEvent' = Ev("DISCONNECT"))
        => state' = "disconnecting"]_vars
  /\ [][(lastEvent' = Ev("DISCONNECT")) => Phase(state) = "connected"]_vars

\* DISCONNECT was taken while the services were being discovered.
C39_Witness ==
  /\ state = "disconnecting"
  /\ lastEvent = Ev("DISCONNECT")
  /\ stale["discoverServicesAndSetup"] = 1
  /\ IsNone(context.buttonState)

\* C40: when the read of the Device Store rejects, the machine enters
\* scanning with the scan invoked, deviceId and deviceName none, error none
\* and the list empty, as it does when the read returns nothing.
C40_FailedLoadScans ==
  [][(state = "loadingStoredDevice"
        /\ lastEvent'.arg = "loadStoredDeviceId"
        /\ (lastEvent'.type = "error"
              \/ (lastEvent'.type = "done" /\ store = None)))
     => (/\ state' = "scanning"
         /\ child' = Invoke("scanForDevices", None, FALSE)
         /\ context'.deviceId = None
         /\ context'.deviceName = None
         /\ context'.error = None
         /\ context'.discoveredDevices = <<>>)]_vars

\* The read failed with a device in the store: the machine is scanning.
C40_Witness ==
  /\ state = "scanning"
  /\ lastEvent = EvOf("error", "loadStoredDeviceId")
  /\ store \in Devices
  /\ context.deviceId = None
  /\ context.error = None

\* C33: when every invoked operation eventually completes, the machine is
\* always eventually in idle, scanning or connected.ready: it stays forever
\* in none of init, connecting, service discovery, togglingLed,
\* readingButton and disconnecting, whether or not further events arrive.
C33_EventuallyRests ==
  /\ []<>(state \in {"idle", "scanning", "ready"})
  /\ []((state \notin {"idle", "scanning", "ready"}) => child # NoChild)

\* A read of the button has completed and the machine rests in ready with
\* no operation left behind.
C33_Witness ==
  /\ state = "ready"
  /\ lastEvent = EvOf("done", "readButtonState")
  /\ child = NoChild
  /\ StaleTotal = 0

====
